---- MODULE Spec2Model ----
(***************************************************************************)
(* Authentication and account-lockout subsystem of the task-management     *)
(* service: backend/app/services/auth.py, core/security.py,                *)
(* core/validators.py, api/dependencies.py and the auth endpoints of       *)
(* api/v1/auth.py.                                                         *)
(*                                                                         *)
(* The users table is a sequence of rows (the primary key is the index).   *)
(* Every request runs in a worker with its own SQLAlchemy session: a       *)
(* SELECT copies the row into the session (the snapshot), attribute        *)
(* assignments change the copy, and db.commit() writes the columns whose   *)
(* value differs from the loaded one with UPDATE ... WHERE id = :id.       *)
(* A worker's steps are its database round trips; workers interleave       *)
(* between them.  Time is in minutes.                                      *)
(***************************************************************************)
EXTENDS Integers, Sequences, FiniteSets, TLC

VARIABLES
    users,    \* the users table: a sequence of rows, users[i] has id i
    now,      \* datetime.now(timezone.utc), in minutes
    ticks,    \* how many times the clock has advanced
    held,     \* the tokens the clients still hold (issued by the Token Service)
    req,      \* per worker: the request it serves, its session snapshot, its result
    dialect   \* the database behind DATABASE_URL: "sqlite" or "postgresql"

vars == <<users, now, ticks, held, req, dialect>>

----------------------------------------------------------------------------
\* Bounds of the model

MaxTicks == 1
MaxTokens == 1
MaxLen == 4

\* The workers, and the one worker of sequential service
Procs == {1, 2}
SeqProcs == {1}

----------------------------------------------------------------------------
\* Program constants

MAX_FAILED_ATTEMPTS == 5
LOCKOUT_DURATION_MINUTES == 15
ACCESS_TOKEN_EXPIRE_MINUTES == 60
REFRESH_TOKEN_EXPIRE_DAYS == 30
EMAIL_VERIFICATION_EXPIRE_HOURS == 24
PASSWORD_RESET_EXPIRE_HOURS == 1
PASSWORD_MIN_LENGTH == 8
PASSWORD_REQUIRE_UPPERCASE == TRUE
PASSWORD_REQUIRE_LOWERCASE == TRUE
PASSWORD_REQUIRE_DIGITS == TRUE
PASSWORD_REQUIRE_SPECIAL == TRUE

\* Python's None for a nullable timestamp column
None == 0 - 1

TokenTypes == {"access", "refresh", "email_verification", "password_reset"}

\* The clock advances by the lockout window, or to just past the longest
\* token lifetime.
Jumps == {LOCKOUT_DURATION_MINUTES, REFRESH_TOKEN_EXPIRE_DAYS * 1440 + 1}

----------------------------------------------------------------------------
\* Inputs

\* Raw email strings as a client types them, and payload.email.strip().lower()
RawEmails == {"a@x.io", " A@X.io", "b@x.io"}

Normalize(raw) ==
    CASE raw = "a@x.io"  -> "a@x.io"
      [] raw = " A@X.io" -> "a@x.io"
      [] raw = "b@x.io"  -> "b@x.io"

Emails == {Normalize(raw) : raw \in RawEmails}

\* The spellings of the one address that registers under SpecSeq
SeqEmails == {"a@x.io", " A@X.io"}

\* Passwords are strings of characters.
PwAlice == <<"A", "l", "i", "c", "e", "1", "2", "3", "!">>
PwBobby == <<"B", "o", "b", "b", "y", "4", "5", "6", "?">>
PwShort == <<"A", "b", "1", "!">>

Passwords == {PwAlice, PwBobby, PwShort}

UpperChars == {"A", "B"}
LowerChars == {"l", "i", "c", "e", "o", "b", "y"}
DigitChars == {"1", "2", "3", "4", "5", "6"}
SpecialChars == {"!", "?"}

HasChar(password, class) == \E i \in 1..Len(password) : password[i] \in class

\* core/config.py: the password policy of the deployed settings
Settings ==
    [PASSWORD_MIN_LENGTH |-> PASSWORD_MIN_LENGTH,
     PASSWORD_REQUIRE_UPPERCASE |-> PASSWORD_REQUIRE_UPPERCASE,
     PASSWORD_REQUIRE_LOWERCASE |-> PASSWORD_REQUIRE_LOWERCASE,
     PASSWORD_REQUIRE_DIGITS |-> PASSWORD_REQUIRE_DIGITS,
     PASSWORD_REQUIRE_SPECIAL |-> PASSWORD_REQUIRE_SPECIAL]

\* validate_password_strength with the digit rule tested before the lowercase
\* rule
validate_password_strength_digit_first(settings, password) ==
    IF Len(password) < settings.PASSWORD_MIN_LENGTH THEN <<FALSE, "length">>
    ELSE IF settings.PASSWORD_REQUIRE_UPPERCASE /\ ~HasChar(password, UpperChars)
        THEN <<FALSE, "uppercase">>
    ELSE IF settings.PASSWORD_REQUIRE_DIGITS /\ ~HasChar(password, DigitChars)
        THEN <<FALSE, "digit">>
    ELSE IF settings.PASSWORD_REQUIRE_LOWERCASE /\ ~HasChar(password, LowerChars)
        THEN <<FALSE, "lowercase">>
    ELSE IF settings.PASSWORD_REQUIRE_SPECIAL /\ ~HasChar(password, SpecialChars)
        THEN <<FALSE, "special">>
    ELSE <<TRUE, "">>

\* validators.py validate_password_strength lines 17-32 under the given
\* settings: <<is_valid, error_message>>, the message named by its rule
validate_password_strength_with(settings, password) ==
    IF Len(password) < settings.PASSWORD_MIN_LENGTH THEN <<FALSE, "length">>
    ELSE IF settings.PASSWORD_REQUIRE_UPPERCASE /\ ~HasChar(password, UpperChars)
        THEN <<FALSE, "uppercase">>
    ELSE IF settings.PASSWORD_REQUIRE_LOWERCASE /\ ~HasChar(password, LowerChars)
        THEN <<FALSE, "lowercase">>
    ELSE IF settings.PASSWORD_REQUIRE_DIGITS /\ ~HasChar(password, DigitChars)
        THEN <<FALSE, "digit">>
    ELSE IF settings.PASSWORD_REQUIRE_SPECIAL /\ ~HasChar(password, SpecialChars)
        THEN <<FALSE, "special">>
    ELSE <<TRUE, "">>

\* validators.py validate_password_strength: it reads the global settings
validate_password_strength(password) ==
    validate_password_strength_with(Settings, password)

\* validators.py is_strong_password: TRUE, or FALSE where the code raises ValueError
is_strong_password(password) == validate_password_strength(password)[1]

----------------------------------------------------------------------------
\* Credential hasher (passlib bcrypt)

\* bcrypt reads the first 72 bytes of the secret; passlib's bcrypt handler
\* (truncate_error off, the default of the CryptContext of security.py) drops
\* the rest silently.  The characters of the model are one byte each.
BCRYPT_MAX_BYTES == 72

Truncate(password) ==
    SubSeq(password, 1,
           IF Len(password) < BCRYPT_MAX_BYTES THEN Len(password)
           ELSE BCRYPT_MAX_BYTES)

\* Two passwords of 73 characters (UserCreate allows up to 100) that satisfy
\* the policy and differ in the last character only
PwLong(last) == [i \in 1..(BCRYPT_MAX_BYTES + 1) |->
                    IF i <= Len(PwAlice) THEN PwAlice[i]
                    ELSE IF i <= BCRYPT_MAX_BYTES THEN "c" ELSE last]

LongPasswords == {PwLong("1"), PwLong("2")}

\* pwd_context.hash: the digest is a function of key, the bytes bcrypt read;
\* of remembers the password the digest was made of, which the program cannot
\* read back and verify_password does not use.
get_password_hash(password) ==
    [scheme |-> "bcrypt", key |-> Truncate(password), of |-> password]

\* pwd_context.verify: hashes the given password again and compares
verify_password(plain_password, hashed_password) ==
    hashed_password.scheme = "bcrypt" /\ hashed_password.key = Truncate(plain_password)

----------------------------------------------------------------------------
\* Token Service

\* str(user.id) and int(payload["sub"])
IdStrings == <<"1", "2", "3">>

StrOfId(id) == IdStrings[id]

\* int(s): the number, or 0 where Python raises ValueError
IntOfStr(s) ==
    IF \E i \in DOMAIN IdStrings : IdStrings[i] = s
    THEN CHOOSE i \in DOMAIN IdStrings : IdStrings[i] = s
    ELSE 0

Lifetime(type) ==
    CASE type = "access"             -> ACCESS_TOKEN_EXPIRE_MINUTES
      [] type = "refresh"            -> REFRESH_TOKEN_EXPIRE_DAYS * 1440
      [] type = "email_verification" -> EMAIL_VERIFICATION_EXPIRE_HOURS * 60
      [] type = "password_reset"     -> PASSWORD_RESET_EXPIRE_HOURS * 60

\* jwt.encode of the claims: a token is its payload and its signature
create_access_token(sub, t) ==
    [sub |-> sub, exp |-> t + Lifetime("access"), iat |-> t,
     type |-> "access", sig |-> "valid"]

create_refresh_token(sub, t) ==
    [sub |-> sub, exp |-> t + Lifetime("refresh"), iat |-> t,
     type |-> "refresh", sig |-> "valid"]

create_email_verification_token(email, t) ==
    [sub |-> email, exp |-> t + Lifetime("email_verification"), iat |-> t,
     type |-> "email_verification", sig |-> "valid"]

create_password_reset_token(email, t) ==
    [sub |-> email, exp |-> t + Lifetime("password_reset"), iat |-> t,
     type |-> "password_reset", sig |-> "valid"]

\* What verification returns for an invalid token (Python's None)
NoPayload == [sub |-> "", exp |-> None, iat |-> None, type |-> "invalid"]

\* jwt.decode without the check of the exp claim
jwt_decode_ok_no_exp(token, t) == token.sig = "valid"

\* jose jwt.decode: the signature must verify and exp must not lie before now
jwt_decode_ok(token, t) == token.sig = "valid" /\ ~(token.exp < t)

PayloadOf(token) ==
    [sub |-> token.sub, exp |-> token.exp, iat |-> token.iat, type |-> token.type]

\* verify_token without the comparison of the type claim
verify_token_any_type(token, expected_type, t) ==
    IF ~jwt_decode_ok(token, t) THEN NoPayload ELSE PayloadOf(token)

\* security.py verify_token: the payload, or NoPayload for None
verify_token(token, expected_type, t) ==
    IF ~jwt_decode_ok(token, t) THEN NoPayload
    ELSE IF token.type # expected_type THEN NoPayload
    ELSE PayloadOf(token)

\* A token no key of the service signed
MalformedToken == [sub |-> "", exp |-> 0, iat |-> 0, type |-> "access", sig |-> "bad"]

\* What a client can present where a token of type wanted is expected: a token
\* it holds, a held token with its type rewritten to the wanted one (the
\* signature then no longer verifies), or garbage.
Presentable(wanted) ==
    held \cup {[t EXCEPT !.type = wanted, !.sig = "bad"] : t \in held}
         \cup {MalformedToken}

----------------------------------------------------------------------------
\* The users table and the session

Columns == {"email", "hashed_password", "is_verified", "is_active",
            "failed_login_attempts", "last_failed_login", "account_locked_until"}

\* a User created already verified
NewUser_verified(email, password) ==
    [email |-> email,
     hashed_password |-> get_password_hash(password),
     is_verified |-> TRUE,
     is_active |-> TRUE,
     failed_login_attempts |-> 0,
     last_failed_login |-> None,
     account_locked_until |-> None]

\* User(...) of register_user with the column defaults of models/user.py
NewUser(email, password) ==
    [email |-> email,
     hashed_password |-> get_password_hash(password),
     is_verified |-> FALSE,
     is_active |-> TRUE,
     failed_login_attempts |-> 0,
     last_failed_login |-> None,
     account_locked_until |-> None]

NoRow == NewUser("", <<>>)

Ids == DOMAIN users

\* select(User).where(User.email == email): the id, or 0 for no row
find_user_by_email(email) ==
    IF \E i \in Ids : users[i].email = email
    THEN CHOOSE i \in Ids : users[i].email = email
    ELSE 0

\* select(User).where(User.id == id): the id, or 0 for no row
find_user_by_id(id) == IF id \in Ids THEN id ELSE 0

\* the UPDATE without its WHERE clause: every row is written
Flush_every_row(table, id, loaded, changed, always) ==
    [i \in DOMAIN table |->
        [c \in Columns |->
            IF c \in always \/ changed[c] # loaded[c] THEN changed[c] ELSE table[i][c]]]

\* db.commit() of a loaded row: UPDATE of the columns whose value differs from
\* the loaded one (and of those in always, assigned a value never equal to the
\* old one), on the row as it is now in the table.
Flush(table, id, loaded, changed, always) ==
    [table EXCEPT ![id] =
        [c \in Columns |->
            IF c \in always \/ changed[c] # loaded[c] THEN changed[c] ELSE table[id][c]]]

----------------------------------------------------------------------------
\* Account lockout (services/auth.py authenticate_user)

\* Lines 91-98: the lock check on a loaded row.  A DateTime(timezone=True)
\* column read back from SQLite is a naive datetime, and comparing
\* datetime.now(timezone.utc) with it raises TypeError; PostgreSQL returns
\* an aware datetime.
LockState(row, t, db) ==
    IF row.account_locked_until = None THEN "open"
    ELSE IF db = "sqlite" THEN "TypeError"
    ELSE IF t < row.account_locked_until THEN "locked"
    ELSE "expired"

\* the expired lock cleared without the counter
ExpireLock_keeps_counter(row) ==
    [row EXCEPT !.account_locked_until = None]

\* Lines 96-97: the lockout expired
ExpireLock(row) ==
    [row EXCEPT !.account_locked_until = None, !.failed_login_attempts = 0]

\* FailedLogin with the threshold compared by > : the lock comes one failure late
FailedLogin_late(row, t) ==
    LET n == row.failed_login_attempts + 1
    IN [row EXCEPT !.failed_login_attempts = n,
                   !.last_failed_login = t,
                   !.account_locked_until =
                       IF n > MAX_FAILED_ATTEMPTS
                       THEN t + LOCKOUT_DURATION_MINUTES
                       ELSE @]

\* Lines 107-112: a failed password check
FailedLogin(row, t) ==
    LET n == row.failed_login_attempts + 1
    IN [row EXCEPT !.failed_login_attempts = n,
                   !.last_failed_login = t,
                   !.account_locked_until =
                       IF n >= MAX_FAILED_ATTEMPTS
                       THEN t + LOCKOUT_DURATION_MINUTES
                       ELSE @]

\* SuccessfulLogin that forgets to clear last_failed_login
SuccessfulLogin_keeps_stamp(row) ==
    IF row.failed_login_attempts > 0
    THEN [row EXCEPT !.failed_login_attempts = 0]
    ELSE row

\* Lines 118-120: a successful password check
SuccessfulLogin(row) ==
    IF row.failed_login_attempts > 0
    THEN [row EXCEPT !.failed_login_attempts = 0, !.last_failed_login = None]
    ELSE row

\* Lines 124-131: the token pair of a user
TokenPair(id, t) ==
    {create_access_token(StrOfId(id), t), create_refresh_token(StrOfId(id), t)}

\* ResetRow that leaves the time of the last failure in place
ResetRow_keeps_stamp(row, new_password) ==
    [row EXCEPT !.hashed_password = get_password_hash(new_password),
                !.failed_login_attempts = 0,
                !.account_locked_until = None]

\* ResetRow that leaves a running lock in place
ResetRow_keeps_lock(row, new_password) ==
    [row EXCEPT !.hashed_password = get_password_hash(new_password),
                !.failed_login_attempts = 0,
                !.last_failed_login = None]

\* services/auth.py reset_password, lines 259-263
ResetRow(row, new_password) ==
    [row EXCEPT !.hashed_password = get_password_hash(new_password),
                !.failed_login_attempts = 0,
                !.last_failed_login = None,
                !.account_locked_until = None]

----------------------------------------------------------------------------
\* Requests

IdleReq ==
    [op |-> "none", pc |-> "idle", email |-> "", pw |-> <<>>,
     tok |-> MalformedToken, uid |-> 0, snap |-> NoRow,
     res |-> "none", checked |-> FALSE, out |-> {}, before |-> <<>>,
     follows |-> 0, t0 |-> 0, raw |-> "", err |-> "", spent |-> {},
     mail |-> "none", cfg |-> Settings]

\* A request as the endpoint receives it: before is the users table at that
\* moment; pc becomes "done" when the request has its result res, with the
\* tokens out it returns; checked tells that verify_password ran.  follows
\* is the id of the user whose password the request served just before has
\* reset (0 when it did not, or when something happened in between); t0 is
\* the time of arrival, when the endpoint verifies the token it is given; raw
\* is the email as the client typed it, err the message of a ValueError, and
\* spent the refresh and password_reset tokens the client still holds that a
\* refresh or a reset has already accepted; mail tells whether the verification mail of a registration went
\* out ("sent") or send_email returned False ("failed"); cfg is the policy
\* settings a call of validate_password_strength ran under.
NewReq(p) ==
    [IdleReq EXCEPT !.pc = "done", !.before = users, !.t0 = now,
                    !.follows = req[p].follows,
                    !.spent = req[p].spent \cap held]

Init ==
    /\ users = <<>>
    /\ now = 0
    /\ ticks = 0
    /\ held = {}
    /\ req = [p \in Procs |-> IdleReq]
    /\ dialect \in {"sqlite", "postgresql"}

Set(p, r) == req' = [req EXCEPT ![p] = r]

\* A response is returned before anything else happens.
NoneDone == \A q \in Procs : req[q].pc # "done"

Free(p) == NoneDone /\ req[p].pc = "idle"

At(p, pc) == NoneDone /\ req[p].pc = pc

\* ResetTarget that trusts the sub claim of any token
ResetTarget_any_token(token, t) == find_user_by_email(token.sub)

\* reset_password lines 246-257: the id of the user whose password the token
\* allows to reset, or 0 where the code returns False
ResetTarget(token, t) ==
    LET payload == verify_token(token, "password_reset", t)
    IN IF payload = NoPayload \/ payload.sub = "" THEN 0
       ELSE find_user_by_email(payload.sub)

\* The client keeps or forgets the tokens it is sent.
Keep(new) ==
    \E k \in SUBSET (held \cup new) : Cardinality(k) <= MaxTokens /\ held' = k

\* register_user on a table without the unique constraint on email
Register_no_unique(p, raw, password) ==
    /\ Free(p)
    /\ LET email == Normalize(raw)
           base == [NewReq(p) EXCEPT !.op = "register", !.email = email,
                                   !.raw = raw, !.pw = password]
       IN IF ~is_strong_password(password)
          THEN /\ Set(p, [base EXCEPT !.res = "ValueError",
                                      !.err = validate_password_strength(password)[2]])
               /\ UNCHANGED users
          ELSE /\ Len(users) < 2
               /\ users' = Append(users, NewUser(email, password))
               /\ Set(p, [base EXCEPT !.pc = "reg_mail", !.res = "pending",
                                      !.uid = Len(users) + 1,
                                      !.snap = NewUser(email, password)])
    /\ UNCHANGED <<now, ticks, held, dialect>>

\* api/v1/auth.py register, lines 89-108, with register_user
Register(p, raw, password) ==
    /\ Free(p)
    /\ LET email == Normalize(raw)
           base == [NewReq(p) EXCEPT !.op = "register", !.email = email,
                                   !.raw = raw, !.pw = password]
       IN IF ~is_strong_password(password)
          THEN /\ Set(p, [base EXCEPT !.res = "ValueError",
                                      !.err = validate_password_strength(password)[2]])
               /\ UNCHANGED users
          ELSE IF find_user_by_email(email) # 0
          THEN /\ Set(p, [base EXCEPT !.res = "None"])
               /\ UNCHANGED users
          ELSE /\ users' = Append(users, NewUser(email, password))
               /\ Set(p, [base EXCEPT !.pc = "reg_mail", !.res = "pending",
                                      !.uid = Len(users) + 1,
                                      !.snap = NewUser(email, password)])
    /\ UNCHANGED <<now, ticks, held, dialect>>

\* register with a failed send undoing the registration
RegisterMail_rollback(p) ==
    /\ At(p, "reg_mail")
    /\ LET token == create_email_verification_token(req[p].snap.email, now)
       IN \/ /\ Keep({token})
             /\ Set(p, [req[p] EXCEPT !.pc = "auth_loaded", !.mail = "sent"])
             /\ UNCHANGED users
          \/ /\ users' = SubSeq(users, 1, Len(users) - 1)
             /\ Set(p, [req[p] EXCEPT !.pc = "done", !.res = "unauth",
                                      !.mail = "failed"])
             /\ UNCHANGED held
    /\ UNCHANGED <<now, ticks, dialect>>

\* register with authenticate_user loading the row anew from the table
RegisterMail_reloads(p) ==
    /\ At(p, "reg_mail")
    /\ LET token == create_email_verification_token(req[p].snap.email, now)
       IN \/ /\ Keep({token})
             /\ Set(p, [req[p] EXCEPT !.pc = "auth_loaded", !.mail = "sent",
                                      !.snap = users[req[p].uid]])
          \/ /\ UNCHANGED held
             /\ Set(p, [req[p] EXCEPT !.pc = "auth_loaded", !.mail = "failed",
                                      !.snap = users[req[p].uid]])
    /\ UNCHANGED <<users, now, ticks, dialect>>

\* api/v1/auth.py register, lines 112-117: the verification token is mailed
\* (send_email returns True, or False when SMTP is not configured or the send
\* fails; it does not raise); authenticate_user then finds the row the session
\* already holds.
RegisterMail(p) ==
    /\ At(p, "reg_mail")
    /\ LET token == create_email_verification_token(req[p].snap.email, now)
       IN \/ /\ Keep({token})
             /\ Set(p, [req[p] EXCEPT !.pc = "auth_loaded", !.mail = "sent"])
          \/ /\ UNCHANGED held
             /\ Set(p, [req[p] EXCEPT !.pc = "auth_loaded", !.mail = "failed"])
    /\ UNCHANGED <<users, now, ticks, dialect>>

\* api/v1/auth.py login with authenticate_user lines 84-98
Login(p, raw, password) ==
    /\ Free(p)
    /\ LET email == Normalize(raw)
           id == find_user_by_email(email)
           base == [NewReq(p) EXCEPT !.op = "login", !.email = email,
                                   !.pw = password]
       IN IF id = 0
          THEN Set(p, [base EXCEPT !.res = "unauth"])
          ELSE LET s == LockState(users[id], now, dialect)
               IN Set(p, [base EXCEPT
                       !.uid = id,
                       !.snap = users[id],
                       !.pc = CASE s = "open" -> "auth_loaded"
                                [] s = "expired" -> "auth_unlock"
                                [] OTHER -> "done",
                       !.res = CASE s = "locked" -> "unauth"
                                 [] s = "TypeError" -> "TypeError"
                                 [] OTHER -> "pending"])
    /\ UNCHANGED <<users, now, ticks, held, dialect>>

\* authenticate_user line 98: db.commit() of the expired lock
AuthUnlock(p) ==
    /\ At(p, "auth_unlock")
    /\ users' = Flush(users, req[p].uid, req[p].snap, ExpireLock(req[p].snap), {})
    /\ Set(p, [req[p] EXCEPT !.pc = "auth_expired"])
    /\ UNCHANGED <<now, ticks, held, dialect>>

\* authenticate_user line 101: the commit expired the row, reading
\* user.is_active loads it again
AuthReload(p) ==
    /\ At(p, "auth_expired")
    /\ Set(p, [req[p] EXCEPT !.pc = "auth_loaded", !.snap = users[req[p].uid]])
    /\ UNCHANGED <<users, now, ticks, held, dialect>>

\* authenticate_user testing is_active after the password
AuthFinish_password_first(p) ==
    /\ At(p, "auth_loaded")
    /\ LET r == req[p]
           row == r.snap
       IN IF ~verify_password(r.pw, row.hashed_password)
          THEN /\ users' = Flush(users, r.uid, row, FailedLogin(row, now), {})
               /\ Set(p, [r EXCEPT !.pc = "done", !.res = "unauth", !.checked = TRUE])
               /\ UNCHANGED held
          ELSE IF ~row.is_active
          THEN /\ Set(p, [r EXCEPT !.pc = "done", !.res = "unauth"])
               /\ UNCHANGED <<users, held>>
          ELSE /\ users' = Flush(users, r.uid, row, SuccessfulLogin(row), {})
               /\ Keep(TokenPair(r.uid, now))
               /\ Set(p, [r EXCEPT !.pc = "done", !.res = "tokens", !.checked = TRUE,
                                   !.out = TokenPair(r.uid, now)])
    /\ UNCHANGED <<now, ticks, dialect>>

\* authenticate_user lines 100-133
AuthFinish(p) ==
    /\ At(p, "auth_loaded")
    /\ LET r == req[p]
           row == r.snap
       IN IF ~row.is_active
          THEN /\ Set(p, [r EXCEPT !.pc = "done", !.res = "unauth"])
               /\ UNCHANGED <<users, held>>
          ELSE IF ~verify_password(r.pw, row.hashed_password)
          THEN /\ users' = Flush(users, r.uid, row, FailedLogin(row, now), {})
               /\ Set(p, [r EXCEPT !.pc = "done", !.res = "unauth", !.checked = TRUE])
               /\ UNCHANGED held
          ELSE /\ users' = Flush(users, r.uid, row, SuccessfulLogin(row), {})
               /\ Keep(TokenPair(r.uid, now))
               /\ Set(p, [r EXCEPT !.pc = "done", !.res = "tokens", !.checked = TRUE,
                                   !.out = TokenPair(r.uid, now)])
    /\ UNCHANGED <<now, ticks, dialect>>

\* refresh_access_token without the test of is_active
Refresh_inactive_ok(p, token) ==
    /\ Free(p)
    /\ LET payload == verify_token(token, "refresh", now)
           id == find_user_by_id(IntOfStr(payload.sub))
           base == [NewReq(p) EXCEPT !.op = "refresh", !.tok = token]
       IN IF payload = NoPayload \/ payload.sub = ""
          THEN Set(p, [base EXCEPT !.res = "None"]) /\ UNCHANGED held
          ELSE IF id = 0
          THEN Set(p, [base EXCEPT !.res = "None", !.uid = id]) /\ UNCHANGED held
          ELSE /\ Keep(TokenPair(id, now))
               /\ Set(p, [base EXCEPT !.res = "tokens", !.uid = id,
                                      !.snap = users[id],
                                      !.out = TokenPair(id, now)])
    /\ UNCHANGED <<users, now, ticks, dialect>>

\* refresh_access_token accepting a refresh token only once
Refresh_once(p, token) ==
    /\ Free(p)
    /\ LET payload == verify_token(token, "refresh", now)
           id == find_user_by_id(IntOfStr(payload.sub))
           base == [NewReq(p) EXCEPT !.op = "refresh", !.tok = token]
       IN IF payload = NoPayload \/ payload.sub = "" \/ token \in req[p].spent
          THEN Set(p, [base EXCEPT !.res = "None"]) /\ UNCHANGED held
          ELSE IF id = 0 \/ ~users[id].is_active
          THEN Set(p, [base EXCEPT !.res = "None", !.uid = id]) /\ UNCHANGED held
          ELSE /\ Keep(TokenPair(id, now))
               /\ Set(p, [base EXCEPT !.res = "tokens", !.uid = id,
                                      !.snap = users[id],
                                      !.out = TokenPair(id, now)])
    /\ UNCHANGED <<users, now, ticks, dialect>>

\* api/v1/auth.py refresh_token with refresh_access_token
Refresh(p, token) ==
    /\ Free(p)
    /\ LET payload == verify_token(token, "refresh", now)
           id == find_user_by_id(IntOfStr(payload.sub))
           base == [NewReq(p) EXCEPT !.op = "refresh", !.tok = token]
       IN IF payload = NoPayload \/ payload.sub = ""
          THEN Set(p, [base EXCEPT !.res = "None"]) /\ UNCHANGED held
          ELSE IF id = 0 \/ ~users[id].is_active
          THEN Set(p, [base EXCEPT !.res = "None", !.uid = id]) /\ UNCHANGED held
          ELSE /\ Keep(TokenPair(id, now))
               /\ Set(p, [base EXCEPT !.res = "tokens", !.uid = id,
                                      !.snap = users[id],
                                      !.out = TokenPair(id, now)])
    /\ UNCHANGED <<users, now, ticks, dialect>>

\* get_current_user refusing a deactivated user
GetCurrentUser_active_only(p, token) ==
    /\ Free(p)
    /\ LET id == find_user_by_id(IntOfStr(token.sub))
           base == [NewReq(p) EXCEPT !.op = "current_user", !.tok = token]
       IN IF ~jwt_decode_ok(token, now) \/ token.type # "access" \/ id = 0
          THEN Set(p, [base EXCEPT !.res = "401"])
          ELSE IF ~users[id].is_active
          THEN Set(p, [base EXCEPT !.res = "401"])
          ELSE Set(p, [base EXCEPT !.res = "user", !.uid = id, !.snap = users[id]])
    /\ UNCHANGED <<users, now, ticks, held, dialect>>

\* api/dependencies.py get_current_user
GetCurrentUser(p, token) ==
    /\ Free(p)
    /\ LET id == find_user_by_id(IntOfStr(token.sub))
           base == [NewReq(p) EXCEPT !.op = "current_user", !.tok = token]
       IN IF ~jwt_decode_ok(token, now) \/ token.type # "access" \/ id = 0
          THEN Set(p, [base EXCEPT !.res = "401"])
          ELSE Set(p, [base EXCEPT !.res = "user", !.uid = id, !.snap = users[id]])
    /\ UNCHANGED <<users, now, ticks, held, dialect>>

\* verify_email refusing the token of a user already verified
VerifyEmail_once(p, token) ==
    /\ Free(p)
    /\ LET payload == verify_token(token, "email_verification", now)
           id == find_user_by_email(payload.sub)
           base == [NewReq(p) EXCEPT !.op = "verify_email", !.tok = token]
       IN IF payload = NoPayload \/ payload.sub = "" \/ id = 0
          THEN Set(p, [base EXCEPT !.res = "False"])
          ELSE IF users[id].is_verified
          THEN Set(p, [base EXCEPT !.res = "False", !.uid = id, !.snap = users[id]])
          ELSE Set(p, [base EXCEPT !.res = "pending", !.pc = "verify_loaded",
                                   !.uid = id, !.snap = users[id]])
    /\ UNCHANGED <<users, now, ticks, held, dialect>>

\* api/v1/auth.py verify_user_email with verify_email lines 183-198
VerifyEmail(p, token) ==
    /\ Free(p)
    /\ LET payload == verify_token(token, "email_verification", now)
           id == find_user_by_email(payload.sub)
           base == [NewReq(p) EXCEPT !.op = "verify_email", !.tok = token]
       IN IF payload = NoPayload \/ payload.sub = "" \/ id = 0
          THEN Set(p, [base EXCEPT !.res = "False"])
          ELSE IF users[id].is_verified
          THEN Set(p, [base EXCEPT !.res = "True", !.uid = id, !.snap = users[id]])
          ELSE Set(p, [base EXCEPT !.res = "pending", !.pc = "verify_loaded",
                                   !.uid = id, !.snap = users[id]])
    /\ UNCHANGED <<users, now, ticks, held, dialect>>

\* verify_email lines 200-202
VerifyEmailCommit(p) ==
    /\ At(p, "verify_loaded")
    /\ users' = Flush(users, req[p].uid, req[p].snap,
                      [req[p].snap EXCEPT !.is_verified = TRUE], {})
    /\ Set(p, [req[p] EXCEPT !.pc = "done", !.res = "True"])
    /\ UNCHANGED <<now, ticks, held, dialect>>

\* request_password_reset issuing a token for every address
ForgotPassword_any_email(p, raw) ==
    /\ Free(p)
    /\ LET email == Normalize(raw)
           id == find_user_by_email(email)
           base == [NewReq(p) EXCEPT !.op = "forgot_password", !.email = email, !.res = "ok"]
       IN /\ Keep({create_password_reset_token(email, now)})
          /\ Set(p, [base EXCEPT !.uid = id,
                                 !.out = {create_password_reset_token(email, now)}])
    /\ UNCHANGED <<users, now, ticks, dialect>>

\* api/v1/auth.py forgot_password with request_password_reset
ForgotPassword(p, raw) ==
    /\ Free(p)
    /\ LET email == Normalize(raw)
           id == find_user_by_email(email)
           base == [NewReq(p) EXCEPT !.op = "forgot_password", !.email = email, !.res = "ok"]
       IN IF id = 0
          THEN Set(p, base) /\ UNCHANGED held
          ELSE /\ Keep({create_password_reset_token(email, now)})
               /\ Set(p, [base EXCEPT !.uid = id,
                                      !.out = {create_password_reset_token(email, now)}])
    /\ UNCHANGED <<users, now, ticks, dialect>>

\* reset_password with the token verified before the password policy
ResetPassword_token_first(p, token, new_password) ==
    /\ Free(p)
    /\ LET id == ResetTarget(token, now)
           base == [NewReq(p) EXCEPT !.op = "reset_password", !.tok = token,
                                   !.pw = new_password]
       IN IF id = 0
          THEN Set(p, [base EXCEPT !.res = "False"])
          ELSE IF ~is_strong_password(new_password)
          THEN Set(p, [base EXCEPT !.res = "ValueError",
                                   !.err = validate_password_strength(new_password)[2]])
          ELSE Set(p, [base EXCEPT !.res = "pending", !.pc = "reset_loaded",
                                   !.uid = id, !.snap = users[id]])
    /\ UNCHANGED <<users, now, ticks, held, dialect>>

\* reset_password accepting a token only once
ResetPassword_once(p, token, new_password) ==
    /\ Free(p)
    /\ LET id == ResetTarget(token, now)
           base == [NewReq(p) EXCEPT !.op = "reset_password", !.tok = token,
                                   !.pw = new_password]
       IN IF ~is_strong_password(new_password)
          THEN Set(p, [base EXCEPT !.res = "ValueError",
                                   !.err = validate_password_strength(new_password)[2]])
          ELSE IF id = 0 \/ token \in req[p].spent
          THEN Set(p, [base EXCEPT !.res = "False"])
          ELSE Set(p, [base EXCEPT !.res = "pending", !.pc = "reset_loaded",
                                   !.uid = id, !.snap = users[id]])
    /\ UNCHANGED <<users, now, ticks, held, dialect>>

\* api/v1/auth.py reset_user_password with reset_password lines 242-257
ResetPassword(p, token, new_password) ==
    /\ Free(p)
    /\ LET id == ResetTarget(token, now)
           base == [NewReq(p) EXCEPT !.op = "reset_password", !.tok = token,
                                   !.pw = new_password]
       IN IF ~is_strong_password(new_password)
          THEN Set(p, [base EXCEPT !.res = "ValueError",
                                   !.err = validate_password_strength(new_password)[2]])
          ELSE IF id = 0
          THEN Set(p, [base EXCEPT !.res = "False"])
          ELSE Set(p, [base EXCEPT !.res = "pending", !.pc = "reset_loaded",
                                   !.uid = id, !.snap = users[id]])
    /\ UNCHANGED <<users, now, ticks, held, dialect>>

\* reset_password lines 259-265
ResetCommit(p) ==
    /\ At(p, "reset_loaded")
    /\ users' = Flush(users, req[p].uid, req[p].snap,
                      ResetRow(req[p].snap, req[p].pw), {"hashed_password"})
    /\ Set(p, [req[p] EXCEPT !.pc = "done", !.res = "True"])
    /\ UNCHANGED <<now, ticks, held, dialect>>

\* api/v1/auth.py resend_verification with resend_verification_email: the
\* service returns the user only when the row exists and is not verified, and
\* the endpoint then mails a new verification token.
ResendVerification(p, raw) ==
    /\ Free(p)
    /\ LET email == Normalize(raw)
           id == find_user_by_email(email)
           base == [NewReq(p) EXCEPT !.op = "resend_verification", !.email = email]
       IN IF id = 0 \/ users[id].is_verified
          THEN Set(p, [base EXCEPT !.res = "None"]) /\ UNCHANGED held
          ELSE /\ Keep({create_email_verification_token(email, now)})
               /\ Set(p, [base EXCEPT !.res = "user", !.uid = id,
                                      !.snap = users[id],
                                      !.out = {create_email_verification_token(email, now)}])
    /\ UNCHANGED <<users, now, ticks, dialect>>

\* The HTTP response of the endpoint for the result r of its service call:
\* status code and detail (errors) or message; "AuthResponse" and
\* "TokenRefreshResponse" stand for the bodies that carry tokens.
Response(r) ==
    CASE r.op = "register" ->
            CASE r.res = "ValueError" -> [status |-> 400, body |-> r.err]
              [] r.res = "None" -> [status |-> 400, body |-> "Email already registered"]
              [] r.res = "tokens" -> [status |-> 201, body |-> "AuthResponse"]
              [] OTHER -> [status |-> 500, body |-> "An unexpected error occurred"]
      [] r.op = "login" ->
            CASE r.res = "unauth" ->
                    [status |-> 401,
                     body |-> "Invalid email or password, or account is locked"]
              [] r.res = "tokens" -> [status |-> 200, body |-> "AuthResponse"]
              [] OTHER -> [status |-> 500, body |-> "An unexpected error occurred"]
      [] r.op = "refresh" ->
            IF r.res = "tokens"
            THEN [status |-> 200, body |-> "TokenRefreshResponse"]
            ELSE [status |-> 401, body |-> "Invalid or expired refresh token"]
      [] r.op = "verify_email" ->
            IF r.res = "True"
            THEN [status |-> 200, body |-> "Email verified successfully"]
            ELSE [status |-> 400, body |-> "Invalid or expired verification token"]
      [] r.op = "resend_verification" ->
            IF r.res = "user"
            THEN [status |-> 200, body |-> "Verification email sent"]
            ELSE [status |-> 200,
                  body |-> "If the email exists and is not verified, a verification email has been sent"]
      [] r.op = "forgot_password" ->
            [status |-> 200,
             body |-> "If the email exists, a password reset link has been sent"]
      [] r.op = "reset_password" ->
            CASE r.res = "ValueError" -> [status |-> 400, body |-> r.err]
              [] r.res = "True" -> [status |-> 200, body |-> "Password reset successfully"]
              [] OTHER -> [status |-> 400, body |-> "Invalid or expired reset token"]
      [] r.op = "current_user" ->
            IF r.res = "user"
            THEN [status |-> 200, body |-> "UserOut"]
            ELSE [status |-> 401, body |-> "Could not validate credentials"]

----------------------------------------------------------------------------
\* Environment

\* The requests after an event that is no request: a request that arrives now
\* no longer follows the one before it directly.
Interrupted ==
    [p \in Procs |-> IF req[p].pc = "idle"
                     THEN [IdleReq EXCEPT !.spent = req[p].spent]
                     ELSE req[p]]

Tick ==
    /\ NoneDone
    /\ ticks < MaxTicks
    /\ \E d \in Jumps : now' = now + d
    /\ ticks' = ticks + 1
    /\ req' = Interrupted
    /\ UNCHANGED <<users, held, dialect>>

\* An operator clears is_active of a row (the column authenticate_user and
\* refresh_access_token test); nothing in the service sets it back.
Deactivate ==
    /\ NoneDone
    /\ \E id \in Ids :
          /\ users[id].is_active
          /\ users' = [users EXCEPT ![id].is_active = FALSE]
    /\ req' = Interrupted
    /\ UNCHANGED <<now, ticks, held, dialect>>

\* The endpoint returns its response and the worker is free again.
Respond(p) ==
    /\ req[p].pc = "done"
    /\ Set(p, [IdleReq EXCEPT
                   !.follows =
                       IF req[p].op = "reset_password" /\ req[p].res = "True"
                       THEN req[p].uid ELSE 0,
                   !.spent =
                       IF \/ req[p].op = "refresh" /\ req[p].res = "tokens"
                          \/ req[p].op = "reset_password" /\ req[p].res = "True"
                       THEN (req[p].spent \cup {req[p].tok}) \cap held
                       ELSE req[p].spent \cap held])
    /\ UNCHANGED <<users, now, ticks, held, dialect>>

\* The same for the workers of the concurrent specification, where no client
\* memory of used tokens is kept.
RespondConc(p) ==
    /\ req[p].pc = "done"
    /\ Set(p, [IdleReq EXCEPT
                   !.follows =
                       IF req[p].op = "reset_password" /\ req[p].res = "True"
                       THEN req[p].uid ELSE 0])
    /\ UNCHANGED <<users, now, ticks, held, dialect>>

----------------------------------------------------------------------------
\* Specifications

Handlers(p, registrable) ==
    \/ \E raw \in registrable, pw \in Passwords : Register(p, raw, pw)
    \/ RegisterMail(p)
    \/ \E raw \in RawEmails, pw \in Passwords : Login(p, raw, pw)
    \/ AuthUnlock(p)
    \/ AuthReload(p)
    \/ AuthFinish(p)
    \/ \E token \in Presentable("refresh") : Refresh(p, token)
    \/ \E token \in Presentable("access") : GetCurrentUser(p, token)
    \/ \E token \in Presentable("email_verification") : VerifyEmail(p, token)
    \/ VerifyEmailCommit(p)
    \/ \E raw \in RawEmails : ResendVerification(p, raw)
    \/ \E raw \in RawEmails : ForgotPassword(p, raw)
    \/ \E pw \in Passwords : \E token \in Presentable("password_reset") :
          ResetPassword(p, token, pw)
    \/ ResetCommit(p)
    \/ Respond(p)

\* Workers serve requests concurrently.
Next == (\E p \in Procs : Handlers(p, RawEmails)) \/ Tick \/ Deactivate

Spec == Init /\ [][Next]_vars

\* One worker serves the requests one after the other; one address registers.
NextSeq == (\E p \in SeqProcs : Handlers(p, SeqEmails)) \/ Tick \/ Deactivate

SpecSeq == Init /\ [][NextSeq]_vars

\* Two workers serve registrations (in both spellings of the address), logins
\* and password resets of one account concurrently, within one minute.
ConcEmails == {"a@x.io"}
ConcPasswords == {PwAlice, PwBobby}

ConcHandlers(p) ==
    \/ \E raw \in SeqEmails, pw \in ConcPasswords : Register(p, raw, pw)
    \/ RegisterMail(p)
    \/ \E raw \in ConcEmails, pw \in ConcPasswords : Login(p, raw, pw)
    \/ AuthFinish(p)
    \/ \E raw \in ConcEmails : ForgotPassword(p, raw)
    \/ \E pw \in ConcPasswords : \E token \in Presentable("password_reset") :
          ResetPassword(p, token, pw)
    \/ ResetCommit(p)
    \/ RespondConc(p)

NextConc == \E p \in Procs : ConcHandlers(p)

SpecConc == Init /\ [][NextConc]_vars

\* One worker serves registrations, logins and password resets of one account
\* with long passwords, within one minute.
LongHandlers(p) ==
    \/ \E raw \in ConcEmails, pw \in LongPasswords : Register(p, raw, pw)
    \/ RegisterMail(p)
    \/ \E raw \in ConcEmails, pw \in LongPasswords \cup {PwAlice} : Login(p, raw, pw)
    \/ AuthFinish(p)
    \/ \E raw \in ConcEmails : ForgotPassword(p, raw)
    \/ \E pw \in LongPasswords : \E token \in Presentable("password_reset") :
          ResetPassword(p, token, pw)
    \/ ResetCommit(p)
    \/ Respond(p)

NextLong == \E p \in SeqProcs : LongHandlers(p)

SpecLong == Init /\ [][NextLong]_vars

\* The password policy on its own: validate_password_strength applied to the
\* passwords of up to MaxLen characters over one character of each class and
\* one of no class, under every setting of the four toggles and three
\* minimal lengths.
PolicyChars == {"A", "b", "1", "!", "_"}

PolicyPasswords == UNION {[1..n -> PolicyChars] : n \in 0..MaxLen}

PolicySettings ==
    [PASSWORD_MIN_LENGTH : {2, 4, PASSWORD_MIN_LENGTH},
     PASSWORD_REQUIRE_UPPERCASE : BOOLEAN,
     PASSWORD_REQUIRE_LOWERCASE : BOOLEAN,
     PASSWORD_REQUIRE_DIGITS : BOOLEAN,
     PASSWORD_REQUIRE_SPECIAL : BOOLEAN]

Validate(p, settings, password) ==
    /\ Free(p)
    /\ LET v == validate_password_strength_with(settings, password)
       IN Set(p, [NewReq(p) EXCEPT !.op = "validate", !.pw = password,
                                  !.cfg = settings,
                                  !.res = IF v[1] THEN "True" ELSE "False",
                                  !.err = v[2]])
    /\ UNCHANGED <<users, now, ticks, held, dialect>>

NextPolicy ==
    \E p \in SeqProcs :
        \/ /\ Free(p)
           /\ \E settings \in PolicySettings, password \in PolicyPasswords :
                 Validate(p, settings, password)
        \/ Respond(p)

SpecPolicy == Init /\ [][NextPolicy]_vars

\* One worker serves two accounts, within one minute.
PairHandlers(p) ==
    \/ \E raw \in RawEmails, pw \in Passwords : Register(p, raw, pw)
    \/ RegisterMail(p)
    \/ \E raw \in RawEmails, pw \in ConcPasswords : Login(p, raw, pw)
    \/ AuthFinish(p)
    \/ \E token \in Presentable("email_verification") : VerifyEmail(p, token)
    \/ VerifyEmailCommit(p)
    \/ \E raw \in RawEmails : ForgotPassword(p, raw)
    \/ \E pw \in Passwords : \E token \in Presentable("password_reset") :
          ResetPassword(p, token, pw)
    \/ ResetCommit(p)
    \/ Respond(p)

NextPair == \E p \in SeqProcs : PairHandlers(p)

SpecPair == Init /\ [][NextPair]_vars

----------------------------------------------------------------------------
\* Properties.  A request that has its result (pc = "done") still shows what
\* it was given, the row its session loaded (snap), the table as it was when
\* the request arrived (before) and, in the other variables, the state it left.

Answered(r) == r.pc = "done"

\* authenticate_user ran for r: from the login endpoint or from register
Authenticated(r) == Answered(r) /\ r.op \in {"login", "register"} /\ r.uid # 0

\* r is a login whose password check failed
FailedCheck(r) == Authenticated(r) /\ r.checked /\ r.res = "unauth"

\* r is a login that found the account locked with the window still running
FoundLocked(r) ==
    /\ Answered(r) /\ r.op = "login" /\ r.uid # 0
    /\ r.before[r.uid].account_locked_until # None
    /\ r.t0 < r.before[r.uid].account_locked_until

\* r is a login that found the account locked with the window elapsed
FoundExpired(r) ==
    /\ Answered(r) /\ r.op = "login" /\ r.uid # 0
    /\ r.before[r.uid].account_locked_until # None
    /\ r.t0 >= r.before[r.uid].account_locked_until

\* C1: under sequential service every failed password check finds the account
\* unlocked with fewer than 5 failures, adds exactly 1 to failed_login_attempts
\* and stamps last_failed_login; account_locked_until stays null while the new
\* count is 1 to 4 and becomes the time of the failure + 15 minutes when the
\* new count is 5.
C1_FailedAttemptsLock ==
    \A p \in Procs :
        FailedCheck(req[p]) =>
            LET old == req[p].snap
                row == users[req[p].uid]
                n == old.failed_login_attempts + 1
            IN /\ old.account_locked_until = None
               /\ n <= 5
               /\ row.failed_login_attempts = n
               /\ row.last_failed_login = now
               /\ row.account_locked_until = IF n = 5 THEN now + 15 ELSE None

\* C1 witness: a fifth failed check has just locked the account for 15 minutes
C1_Witness ==
    \E p \in Procs :
        /\ FailedCheck(req[p])
        /\ req[p].snap.failed_login_attempts = 4
        /\ users[req[p].uid].failed_login_attempts = 5
        /\ users[req[p].uid].account_locked_until = now + 15

\* C2: a login that finds the account locked with the window still running
\* returns (None, None) for every password, the correct one included, without
\* a password check, and leaves the users table as it was.
C2_LockedRejected ==
    \A p \in Procs :
        FoundLocked(req[p]) =>
            /\ req[p].res = "unauth"
            /\ ~req[p].checked
            /\ users = req[p].before

\* C3: a login that finds the lock elapsed unlocks the account and evaluates
\* the password in the same request: for an active user the correct password
\* returns the token pair with the counter at 0, a wrong one leaves the
\* counter at 1 and no lock.
C3_ExpiredLockEvaluated ==
    \A p \in Procs :
        (FoundExpired(req[p]) /\ req[p].before[req[p].uid].is_active
                              /\ users[req[p].uid].is_active) =>
            LET r == req[p]
                row == users[r.uid]
            IN /\ r.checked
               /\ IF verify_password(r.pw, r.before[r.uid].hashed_password)
                  THEN /\ r.res = "tokens"
                       /\ r.out = TokenPair(r.uid, now)
                       /\ row.failed_login_attempts = 0
                       /\ row.account_locked_until = None
                  ELSE /\ r.res = "unauth"
                       /\ row.failed_login_attempts = 1
                       /\ row.account_locked_until = None

\* C4: a login with the correct password on an active, unlocked account with
\* 1 to 4 recorded failures returns the user with an access+refresh pair and
\* leaves failed_login_attempts = 0 and last_failed_login null.
C4_SuccessResets ==
    \A p \in Procs :
        LET r == req[p] IN
        (/\ Answered(r) /\ r.op = "login" /\ r.uid # 0
         /\ r.before[r.uid].failed_login_attempts \in 1..4
         /\ r.before[r.uid].account_locked_until = None
         /\ r.before[r.uid].is_active
         /\ verify_password(r.pw, r.before[r.uid].hashed_password)) =>
            /\ r.res = "tokens"
            /\ r.out = TokenPair(r.uid, now)
            /\ users[r.uid].failed_login_attempts = 0
            /\ users[r.uid].last_failed_login = None

\* C4 witness: a correct password after failures has just reset the counter
C4_Witness ==
    \E p \in Procs :
        LET r == req[p] IN
        /\ Answered(r) /\ r.op = "login" /\ r.uid # 0
        /\ r.before[r.uid].failed_login_attempts \in 1..4
        /\ r.before[r.uid].last_failed_login # None
        /\ r.res = "tokens"
        /\ users[r.uid].failed_login_attempts = 0

\* r is a reset_password call with a strong password and a password_reset
\* token that is valid, unexpired and names an existing user
ValidReset(r) ==
    /\ Answered(r) /\ r.op = "reset_password"
    /\ is_strong_password(r.pw)
    /\ verify_token(r.tok, "password_reset", r.t0) # NoPayload
    /\ r.tok.sub \in {r.before[i].email : i \in DOMAIN r.before}

\* r is the login with the new password that follows a successful reset of
\* that user's password directly
LoginAfterReset(r) ==
    /\ Answered(r) /\ r.op = "login" /\ r.uid # 0
    /\ r.follows = r.uid
    /\ verify_password(r.pw, r.before[r.uid].hashed_password)

ResetClears(r) ==
    ValidReset(r) =>
        /\ r.res = "True"
        /\ users[r.uid].email = r.tok.sub
        /\ users[r.uid].hashed_password = get_password_hash(r.pw)
        /\ verify_password(r.pw, users[r.uid].hashed_password)
        /\ users[r.uid].failed_login_attempts = 0
        /\ users[r.uid].last_failed_login = None
        /\ users[r.uid].account_locked_until = None

\* C5 as claimed: a valid reset returns true and leaves failed_login_attempts
\* = 0, last_failed_login and account_locked_until null and the new password
\* stored, whatever the state before; and the login with the new password that
\* follows it directly succeeds, for every existing user.
C5_Claimed ==
    \A p \in Procs :
        /\ ResetClears(req[p])
        /\ LoginAfterReset(req[p]) => req[p].res = "tokens"

\* C5 amended: the same, the login that follows succeeding when the user is
\* active (is_active = true).
C5_ResetClearsLockout ==
    \A p \in Procs :
        /\ ResetClears(req[p])
        /\ (LoginAfterReset(req[p]) /\ req[p].before[req[p].uid].is_active) =>
               /\ req[p].res = "tokens"
               /\ req[p].out = TokenPair(req[p].uid, now)

\* C5 witness: a reset has just cleared a lock whose window was still running
C5_Witness ==
    \E p \in Procs :
        /\ ValidReset(req[p])
        /\ req[p].res = "True"
        /\ req[p].snap.account_locked_until # None
        /\ req[p].t0 < req[p].snap.account_locked_until
        /\ users[req[p].uid].account_locked_until = None

\* The lockout columns of row are those reset_password leaves
Cleared(row) ==
    /\ row.failed_login_attempts = 0
    /\ row.last_failed_login = None
    /\ row.account_locked_until = None

\* C6: under any interleaving of workers, a failed password check that
\* commits on an account that is unlocked in the table, has the password the
\* check compared with, and has c < 5 recorded failures (none of them undone
\* since the check loaded the row) leaves failed_login_attempts = c + 1, and
\* locks the account when c + 1 = 5: no failed attempt is lost.
C6_NoAttemptLost ==
    [][\A p \in Procs :
          (/\ req[p].pc = "auth_loaded"
           /\ FailedCheck(req'[p])
           /\ users[req[p].uid].account_locked_until = None
           /\ users[req[p].uid].hashed_password = req[p].snap.hashed_password
           /\ users[req[p].uid].failed_login_attempts >=
                  req[p].snap.failed_login_attempts
           /\ users[req[p].uid].failed_login_attempts < MAX_FAILED_ATTEMPTS)
          => LET c == users[req[p].uid].failed_login_attempts
                 row == users'[req[p].uid]
             IN /\ row.failed_login_attempts = c + 1
                /\ (c + 1 = MAX_FAILED_ATTEMPTS) => row.account_locked_until # None
      ]_vars

\* r is a failed password check during which the other worker o completed a
\* reset of the same user's password, its latest request
ResetDuring(r, o) ==
    /\ FailedCheck(r)
    /\ req[o].pc = "idle" /\ req[o].follows = r.uid
    /\ users[r.uid].hashed_password # r.snap.hashed_password

\* The lockout columns of row are ones that requests served one after the
\* other leave: the account is locked exactly when the counter is at 5
Sequential(row) ==
    /\ row.failed_login_attempts \in 0..MAX_FAILED_ATTEMPTS
    /\ row.account_locked_until # None
           <=> row.failed_login_attempts = MAX_FAILED_ATTEMPTS

\* r is a successful reset_password or a successful login
Succeeded(r) ==
    \/ Answered(r) /\ r.op = "reset_password" /\ r.res = "True"
    \/ Answered(r) /\ r.op = "login" /\ r.res = "tokens"

\* C7: failed logins that run concurrently with a successful login or a
\* successful reset_password on the same user leave the row that one of the
\* sequential orders leaves.  When the successful operation commits last, the
\* row is locked exactly when its counter is 5.  When a failed login commits
\* after a reset that completed while it ran, the row is either the one the
\* reset writes (counter 0, no stamp, no lock) or the one a failed check on
\* that leaves (counter 1, stamped now, no lock): never locked, never a
\* counter computed from the value before the reset.
C7_Serializable ==
    \A p \in Procs :
        /\ Succeeded(req[p]) => Sequential(users[req[p].uid])
        /\ \A o \in Procs \ {p} :
              ResetDuring(req[p], o) =>
                  LET row == users[req[p].uid]
                  IN \/ Cleared(row)
                     \/ /\ ~verify_password(req[p].pw, row.hashed_password)
                        /\ row.failed_login_attempts = 1
                        /\ row.last_failed_login = now
                        /\ row.account_locked_until = None

\* The tokens the Token Service has issued that are around: held by a client
\* or returned by the request just answered
Issued == held \cup UNION {req[p].out : p \in Procs}

\* C8: for every issued token of type T and every expected type U,
\* verification before expiry returns the claims (sub), exp = iat + the
\* lifetime of T, iat and type = T when U = T, and None when U # T;
\* get_current_user accepts an unexpired issued token of an existing user if
\* and only if its type is access, and refresh_access_token accepts only
\* tokens of type refresh.
C8_TokenTypeRoundTrip ==
    /\ \A token \in Issued, U \in TokenTypes :
          ~(token.exp < now) =>
              LET payload == verify_token(token, U, now)
              IN IF U = token.type
                 THEN /\ payload.sub = token.sub
                      /\ payload.iat = token.iat
                      /\ payload.exp = token.iat + Lifetime(token.type)
                      /\ payload.type = token.type
                 ELSE payload = NoPayload
    /\ \A p \in Procs :
          LET r == req[p] IN
          /\ (Answered(r) /\ r.op = "current_user" /\ r.tok.sig = "valid"
                 /\ ~(r.tok.exp < r.t0) /\ IntOfStr(r.tok.sub) \in DOMAIN r.before)
                => (r.res = "user" <=> r.tok.type = "access")
          /\ (Answered(r) /\ r.op = "current_user" /\ r.res = "user")
                => r.tok.type = "access"
          /\ (Answered(r) /\ r.op = "refresh" /\ r.res = "tokens")
                => r.tok.type = "refresh"

\* C8 witness: get_current_user has just rejected an unexpired, validly
\* signed refresh token of an existing user
C8_Witness ==
    \E p \in Procs :
        /\ Answered(req[p]) /\ req[p].op = "current_user"
        /\ req[p].tok.sig = "valid" /\ req[p].tok.type = "refresh"
        /\ ~(req[p].tok.exp < req[p].t0)
        /\ IntOfStr(req[p].tok.sub) \in DOMAIN users
        /\ req[p].res = "401"

\* r presented a token whose exp the time had passed
PresentsExpired(r) ==
    /\ Answered(r)
    /\ r.op \in {"refresh", "verify_email", "reset_password", "current_user"}
    /\ r.tok.exp < r.t0

\* C9: a token whose exp has passed is invalid for refresh_access_token
\* (None), verify_email (False), reset_password (False, or ValueError for a
\* weak password) and get_current_user (401), whatever its signature and
\* type; nothing is issued and the users table is left as it was.
C9_ExpiredTokenInvalid ==
    \A p \in Procs :
        PresentsExpired(req[p]) =>
            LET r == req[p]
            IN /\ r.res = CASE r.op = "refresh" -> "None"
                             [] r.op = "verify_email" -> "False"
                             [] r.op = "current_user" -> "401"
                             [] r.op = "reset_password" ->
                                    IF is_strong_password(r.pw) THEN "False"
                                    ELSE "ValueError"
               /\ r.out = {}
               /\ users = r.before

\* C9 witness: reset_password has just refused a validly signed
\* password_reset token of an existing user because its exp has passed
C9_Witness ==
    \E p \in Procs :
        /\ PresentsExpired(req[p]) /\ req[p].op = "reset_password"
        /\ req[p].tok.sig = "valid" /\ req[p].tok.type = "password_reset"
        /\ find_user_by_email(req[p].tok.sub) # 0
        /\ is_strong_password(req[p].pw)
        /\ req[p].res = "False"

\* r is reset_password with a policy-compliant password and a token that is
\* not a validly signed, unexpired token of type password_reset
BadResetToken(r) ==
    /\ Answered(r) /\ r.op = "reset_password"
    /\ is_strong_password(r.pw)
    /\ \/ r.tok.sig # "valid"
       \/ r.tok.exp < r.t0
       \/ r.tok.type # "password_reset"

\* C10: reset_password with a policy-compliant password and a token that is
\* not a valid unexpired password_reset token returns False and leaves every
\* row of the users table as it was.
C10_BadTokenResetsNothing ==
    \A p \in Procs :
        BadResetToken(req[p]) =>
            /\ req[p].res = "False"
            /\ users = req[p].before

\* C10 witness: reset_password has just refused an unexpired, validly signed
\* email_verification token for the email of an existing user
C10_Witness ==
    \E p \in Procs :
        /\ BadResetToken(req[p])
        /\ req[p].tok.sig = "valid" /\ req[p].tok.type = "email_verification"
        /\ ~(req[p].tok.exp < req[p].t0)
        /\ find_user_by_email(req[p].tok.sub) # 0
        /\ Len(users) = 2
        /\ \E i \in Ids : users[i].failed_login_attempts > 0
        /\ req[p].res = "False"

\* r is a registration or a password reset that was given a password the
\* policy refuses
WeakPassword(r) ==
    /\ Answered(r) /\ r.op \in {"register", "reset_password"}
    /\ ~validate_password_strength(r.pw)[1]

\* C11: register and reset_password validate the password before anything
\* else: a password that fails the policy yields the ValueError carrying the
\* reason of the failing rule, whatever the reset token and whether or not the
\* email is registered, and the users table is left as it was (no user
\* created, no field modified).
C11_WeakPasswordFirst ==
    \A p \in Procs :
        WeakPassword(req[p]) =>
            /\ req[p].res = "ValueError"
            /\ req[p].err = validate_password_strength(req[p].pw)[2]
            /\ req[p].err # ""
            /\ users = req[p].before

\* C11 witness: a reset with a token that allows no reset (forged, of another
\* type, expired or malformed) and a weak password is answered by the
\* ValueError of the policy
C11_Witness ==
    \E p \in Procs :
        /\ WeakPassword(req[p])
        /\ req[p].op = "reset_password"
        /\ verify_token(req[p].tok, "password_reset", req[p].t0) = NoPayload
        /\ req[p].res = "ValueError"
        /\ req[p].err = "length"

\* r is a registration with a password the policy accepts
Registration(r) ==
    /\ r.pc # "idle" /\ r.op = "register"
    /\ validate_password_strength(r.pw)[1]

\* the address r was given, trimmed and lowercased, had a row when r arrived
Registered(r) ==
    \E i \in DOMAIN r.before : r.before[i].email = Normalize(r.raw)

\* C12: in every sequence and interleaving of registrations no two rows have
\* the same email, and every stored email is trimmed and lowercased; a
\* registration whose address, trimmed and lowercased, is already stored gets
\* None from register_user (the endpoint's "Email already registered") and
\* leaves the table as it was; a registration of an address not yet stored
\* creates the row and gets its User.
C12_OneUserPerEmail ==
    /\ \A i, j \in Ids : users[i].email = users[j].email => i = j
    /\ \A i \in Ids : users[i].email \in Emails
    /\ \A p \in Procs :
          Registration(req[p]) =>
              IF Registered(req[p])
              THEN /\ req[p].pc = "done"
                   /\ req[p].res = "None"
                   /\ req[p].uid = 0
                   /\ users = req[p].before
              ELSE /\ req[p].uid = Len(req[p].before) + 1
                   /\ req[p].res \in {"pending", "tokens", "unauth"}
                   /\ users[req[p].uid].email = Normalize(req[p].raw)
                   /\ \A i \in DOMAIN req[p].before :
                         users[i].email = req[p].before[i].email

\* C12 witness: the address registered as "a@x.io" is registered again in
\* another spelling and the registration is reported as a duplicate
C12_Witness ==
    \E p \in Procs :
        /\ Registration(req[p])
        /\ req[p].raw # Normalize(req[p].raw)
        /\ Registered(req[p])
        /\ req[p].res = "None"
        /\ Len(users) = 1

\* the step of worker p is a register_user call that returns a User
RegisterSucceeds(p) ==
    /\ req[p].pc = "idle"
    /\ req'[p].op = "register"
    /\ req'[p].uid # 0

\* C13: a register_user call that returns a User adds exactly one row to the
\* table and changes no other; the new row has the given email, is_verified
\* false, is_active true, failed_login_attempts 0, last_failed_login and
\* account_locked_until null, and its hashed_password is the hash of the given
\* password (a bcrypt digest that verifies the password), not the password.
C13_RegisterPersistsFreshUser ==
    [][\A p \in Procs :
          RegisterSucceeds(p) =>
              LET n == Len(users) + 1
                  row == users'[n]
              IN /\ req'[p].uid = n
                 /\ Len(users') = n
                 /\ SubSeq(users', 1, Len(users)) = users
                 /\ row.email = req'[p].email
                 /\ row.is_verified = FALSE
                 /\ row.is_active = TRUE
                 /\ row.failed_login_attempts = 0
                 /\ row.last_failed_login = None
                 /\ row.account_locked_until = None
                 /\ row.hashed_password = get_password_hash(req'[p].pw)
                 /\ verify_password(req'[p].pw, row.hashed_password)
                 /\ row.hashed_password.scheme = "bcrypt"]_vars

\* C13 witness: register_user has just returned the User it stored, and the
\* row holds the hash of the password
C13_Witness ==
    \E p \in Procs :
        /\ req[p].op = "register" /\ req[p].pc = "reg_mail"
        /\ Len(users) = Len(req[p].before) + 1
        /\ users[req[p].uid].hashed_password = get_password_hash(req[p].pw)
        /\ users[req[p].uid].hashed_password.scheme = "bcrypt"
        /\ ~users[req[p].uid].is_verified

\* r is a login that one of the four preconditions of authentication fails:
\* unknown email, account locked, account inactive, wrong password
FailsPrecondition(r) ==
    /\ Answered(r) /\ r.op = "login"
    /\ \/ r.uid = 0
       \/ FoundLocked(r)
       \/ ~r.before[r.uid].is_active
       \/ ~verify_password(r.pw, r.before[r.uid].hashed_password)

\* the login endpoint's answer to a failed authentication
Unauthorized ==
    [status |-> 401, body |-> "Invalid email or password, or account is locked"]

\* C14: a login that fails for an unknown email, a locked account, an inactive
\* account or a wrong password gets (None, None) from authenticate_user and
\* the one 401 response from the endpoint, whichever of the four it was.
C14_UniformFailure ==
    \A p \in Procs :
        FailsPrecondition(req[p]) =>
            /\ req[p].res = "unauth"
            /\ Response(req[p]) = Unauthorized

\* the register endpoint's answer to the registration of a fresh address
Created == [status |-> 201, body |-> "AuthResponse"]

\* C15: the register endpoint answers the registration of an already
\* registered address with the success-shaped response that the registration
\* of a fresh address gets, so the response does not tell whether the account
\* existed.
C15_RegisterNonRevealing ==
    \A p \in Procs :
        (Answered(req[p]) /\ Registration(req[p]) /\ Registered(req[p])) =>
            Response(req[p]) = Created

\* the forgot-password endpoint's one answer
ResetLinkSent ==
    [status |-> 200, body |-> "If the email exists, a password reset link has been sent"]

\* r is a forgot-password request
Forgot(r) == Answered(r) /\ r.op = "forgot_password"

\* C16: the forgot-password endpoint gives the same success response whether
\* or not the address has a user; a token is produced, and mailed, exactly
\* when the user exists, it is a password_reset token with sub = the email,
\* issued now and valid for one hour; the users table is left as it was.
C16_ForgotNonRevealing ==
    \A p \in Procs :
        Forgot(req[p]) =>
            LET r == req[p]
                exists == \E i \in DOMAIN r.before : r.before[i].email = r.email
            IN /\ Response(r) = ResetLinkSent
               /\ users = r.before
               /\ (r.out # {}) <=> exists
               /\ \A t \in r.out :
                     /\ t.type = "password_reset" /\ t.sub = r.email
                     /\ t.sig = "valid"
                     /\ t.iat = now /\ t.exp = now + 60
               /\ Cardinality(r.out) <= 1

\* C16 witness: an address without user is given while another address is
\* registered: no token is produced, and the answer is the one success message
C16_Witness ==
    \E p \in Procs :
        /\ Forgot(req[p])
        /\ req[p].uid = 0 /\ req[p].out = {}
        /\ Len(users) > 0
        /\ Response(req[p]) = ResetLinkSent

\* r is a resend-verification request
Resend(r) == Answered(r) /\ r.op = "resend_verification"

\* the address of r had a user not yet verified when r arrived
PendingVerification(r) ==
    \E i \in DOMAIN r.before :
        r.before[i].email = r.email /\ ~r.before[i].is_verified

\* resend_verification_email returns the user exactly when the user exists and
\* is not verified, and writes nothing
ResendService ==
    \A p \in Procs :
        Resend(req[p]) =>
            /\ (req[p].res = "user") <=> PendingVerification(req[p])
            /\ (req[p].out # {}) <=> PendingVerification(req[p])
            /\ users = req[p].before

\* the resend-verification endpoint's answer to an unknown address
ResendAnswer ==
    [status |-> 200,
     body |-> "If the email exists and is not verified, a verification email has been sent"]

\* C17: resend_verification_email returns the user only if the user exists and
\* is not yet verified, and the resend-verification endpoint gives one and the
\* same response for an unknown address, an already verified user and a user
\* pending verification.
C17_ResendNonRevealing ==
    /\ ResendService
    /\ \A p \in Procs : Resend(req[p]) => Response(req[p]) = ResendAnswer

\* r is a refresh request
Refreshing(r) == Answered(r) /\ r.op = "refresh"

\* the token of r is a validly signed refresh token, not expired when r
\* arrived, whose sub is the id of a user that was then active
GoodRefreshToken(r) ==
    /\ r.tok.sig = "valid"
    /\ r.tok.type = "refresh"
    /\ ~(r.tok.exp < r.t0)
    /\ IntOfStr(r.tok.sub) \in DOMAIN r.before
    /\ r.before[IntOfStr(r.tok.sub)].is_active

\* C18: refresh_access_token returns a new access+refresh pair, issued now
\* with sub = the user's id, if and only if the token is a validly signed
\* unexpired refresh token whose sub is the id of an existing user with
\* is_active = true; otherwise it returns None; the users table is left as it
\* was in every case.
C18_RefreshIff ==
    \A p \in Procs :
        Refreshing(req[p]) =>
            LET r == req[p]
            IN /\ users = r.before
               /\ r.res \in {"tokens", "None"}
               /\ (r.res = "tokens") <=> GoodRefreshToken(r)
               /\ r.res = "None" => r.out = {}
               /\ r.res = "tokens" =>
                     /\ Cardinality(r.out) = 2
                     /\ {t.type : t \in r.out} = {"access", "refresh"}
                     /\ \A t \in r.out :
                           /\ t.sub = r.tok.sub
                           /\ IntOfStr(t.sub) = r.uid
                           /\ t.sig = "valid"
                           /\ t.iat = now
                           /\ t.exp = now + Lifetime(t.type)

\* C18 witness: the refresh token of an earlier login is presented after time
\* has passed and a pair issued now is returned
C18_Witness ==
    \E p \in Procs :
        /\ Refreshing(req[p])
        /\ GoodRefreshToken(req[p])
        /\ req[p].tok.iat < now
        /\ req[p].res = "tokens"
        /\ \E t \in req[p].out : t.type = "refresh" /\ t # req[p].tok

\* r presents a refresh token that an earlier refresh has already accepted
RefreshAgain(r) == Refreshing(r) /\ r.tok \in r.spent

\* C19: a refresh token is not consumed by its use: a refresh with a token
\* that an earlier refresh accepted succeeds again as long as the token has
\* not expired and its user is active, whatever tokens were issued meanwhile.
C19_RefreshNotConsumed ==
    \A p \in Procs :
        (RefreshAgain(req[p]) /\ GoodRefreshToken(req[p])) =>
            /\ req[p].res = "tokens"
            /\ \E t \in req[p].out : t.type = "refresh"

\* C19 witness: a refresh token issued some time ago and accepted by an
\* earlier refresh is accepted a second time
C19_Witness ==
    \E p \in Procs :
        /\ RefreshAgain(req[p])
        /\ req[p].res = "tokens"
        /\ req[p].tok.iat < now

\* r is a verify-email request
Verifying(r) == Answered(r) /\ r.op = "verify_email"

\* the id of the user that the token of r verifies: the token is a validly
\* signed email_verification token, not expired when r arrived, and its sub is
\* the email of a row; 0 otherwise
VerifyTarget(r) ==
    IF /\ r.tok.sig = "valid" /\ r.tok.type = "email_verification"
       /\ ~(r.tok.exp < r.t0)
       /\ \E i \in DOMAIN r.before : r.before[i].email = r.tok.sub
    THEN CHOOSE i \in DOMAIN r.before : r.before[i].email = r.tok.sub
    ELSE 0

\* the rows of table t without the column is_active, which an operator may
\* clear while the request is served
Stored(t) ==
    [i \in DOMAIN t |-> [t[i] EXCEPT !.is_active = TRUE]]

\* C20: verify_email with a valid unexpired email_verification token for the
\* email of an existing user returns True and leaves is_verified = true and
\* every other column and row as it was; applied to a user already verified
\* (a second application) it returns True without writing, so the table after
\* two applications is the table after one; with an invalid token or an
\* unknown user it returns False and changes nothing.
C20_VerifyIdempotent ==
    \A p \in Procs :
        Verifying(req[p]) =>
            LET r == req[p]
                id == VerifyTarget(r)
            IN IF id = 0
               THEN r.res = "False" /\ users = r.before
               ELSE /\ r.res = "True"
                    /\ users[id].is_verified
                    /\ Stored(users) = Stored([r.before EXCEPT ![id].is_verified = TRUE])
                    /\ r.before[id].is_verified => users = r.before

\* C20 witness: the second application: the token is presented for a user it
\* has verified already, True is returned and nothing is written
C20_Witness ==
    \E p \in Procs :
        /\ Verifying(req[p])
        /\ VerifyTarget(req[p]) # 0
        /\ req[p].before[VerifyTarget(req[p])].is_verified
        /\ req[p].res = "True"
        /\ users = req[p].before

\* r is a login for a user whose row had is_active = false when r arrived
InactiveLogin(r) ==
    /\ Answered(r) /\ r.op = "login" /\ r.uid # 0
    /\ ~r.before[r.uid].is_active

\* C21: a login for a user with is_active = false never returns tokens,
\* whatever the password and the lock, and never reaches the password check:
\* failed_login_attempts is not incremented, last_failed_login is not set and
\* the account is not locked (the columns keep their values, or the counter
\* and the lock are cleared when the login observes an elapsed lockout).
C21_InactiveNeverAuthenticates ==
    \A p \in Procs :
        InactiveLogin(req[p]) =>
            LET r == req[p]
                old == r.before[r.uid]
                row == users[r.uid]
            IN /\ r.res # "tokens"
               /\ r.out = {}
               /\ ~r.checked
               /\ row.failed_login_attempts \in {old.failed_login_attempts, 0}
               /\ row.last_failed_login = old.last_failed_login
               /\ row.account_locked_until \in {old.account_locked_until, None}
               /\ row.hashed_password = old.hashed_password
               /\ ~row.is_active

\* C21 witness: an inactive user without lock logs in with the stored
\* password and is refused without a password check
C21_Witness ==
    \E p \in Procs :
        /\ InactiveLogin(req[p])
        /\ req[p].before[req[p].uid].account_locked_until = None
        /\ verify_password(req[p].pw, req[p].before[req[p].uid].hashed_password)
        /\ req[p].res = "unauth"
        /\ users = req[p].before

\* the step of worker p is the send of the verification mail of a registration
SendsMail(p) == req[p].mail = "none" /\ req'[p].mail # "none"

\* the row that the registration r created is in the table
Persisted(r) ==
    /\ r.uid \in Ids
    /\ users[r.uid].email = r.email
    /\ Len(users) > Len(r.before)

\* C22: in the register endpoint the verification mail is sent only when the
\* user row is committed (the send starts from a state that holds the row and
\* changes no row), and whether the send succeeds or send_email returns False,
\* the registered user stays persisted for the rest of the request.
C22_MailAfterCommit ==
    /\ [][\A p \in Procs :
             SendsMail(p) =>
                 /\ req[p].op = "register" /\ req[p].pc = "reg_mail"
                 /\ Persisted(req[p])
                 /\ users' = users]_vars
    /\ [](\A p \in Procs :
             (req[p].op = "register" /\ req[p].mail # "none") => Persisted(req[p]))

\* C22 witness: the send of the verification mail failed and the registration
\* is answered with the user persisted
C22_Witness ==
    \E p \in Procs :
        /\ Answered(req[p]) /\ req[p].op = "register"
        /\ req[p].mail = "failed"
        /\ Persisted(req[p])
        /\ req[p].res = "tokens"

\* the rules of the policy in the order the specification fixes
RuleOrder == <<"length", "uppercase", "lowercase", "digit", "special">>

\* password breaks the rule and the settings enable the rule (the length rule
\* has no toggle)
Violates(rule, settings, password) ==
    CASE rule = "length" -> Len(password) < settings.PASSWORD_MIN_LENGTH
      [] rule = "uppercase" ->
            /\ settings.PASSWORD_REQUIRE_UPPERCASE
            /\ \A i \in DOMAIN password : password[i] # "A"
      [] rule = "lowercase" ->
            /\ settings.PASSWORD_REQUIRE_LOWERCASE
            /\ \A i \in DOMAIN password : password[i] # "b"
      [] rule = "digit" ->
            /\ settings.PASSWORD_REQUIRE_DIGITS
            /\ \A i \in DOMAIN password : password[i] # "1"
      [] rule = "special" ->
            /\ settings.PASSWORD_REQUIRE_SPECIAL
            /\ \A i \in DOMAIN password : password[i] # "!"

\* the positions in RuleOrder of the enabled rules that password breaks
Violated(settings, password) ==
    {k \in DOMAIN RuleOrder : Violates(RuleOrder[k], settings, password)}

\* r is a call of validate_password_strength
Validated(r) == Answered(r) /\ r.op = "validate"

\* C23: for every password and every setting of the toggles,
\* validate_password_strength returns (True, "") iff the password breaks no
\* enabled rule, and otherwise (False, reason) with the reason of the first
\* enabled rule it breaks in the order length, uppercase, lowercase, digit,
\* special; a disabled rule is never the reason.
C23_FirstViolatedRule ==
    \A p \in Procs :
        Validated(req[p]) =>
            LET r == req[p]
                bad == Violated(r.cfg, r.pw)
            IN IF bad = {}
               THEN r.res = "True" /\ r.err = ""
               ELSE /\ r.res = "False"
                    /\ \E k \in bad :
                          /\ \A j \in bad : k <= j
                          /\ r.err = RuleOrder[k]

\* C23 witness: a password that breaks the lowercase and the digit rule is
\* refused for the lowercase rule, the uppercase rule it also breaks being
\* disabled
C23_Witness ==
    \E p \in Procs :
        /\ Validated(req[p])
        /\ ~req[p].cfg.PASSWORD_REQUIRE_UPPERCASE
        /\ Violated(req[p].cfg, req[p].pw) = {3, 4}
        /\ \A i \in DOMAIN req[p].pw : req[p].pw[i] # "A"
        /\ req[p].err = "lowercase"

\* r is a login for a user whose row was active and not locked when r arrived
OpenLogin(r) ==
    /\ Answered(r) /\ r.op = "login" /\ r.uid # 0
    /\ r.before[r.uid].is_active
    /\ r.before[r.uid].account_locked_until = None

\* the password that register or the last successful reset_password stored
\* for the user of r
LatestPassword(r) == r.before[r.uid].hashed_password.of

\* C24: after any sequence of registrations, logins and password resets, a
\* login of an active, unlocked user with password p returns tokens if and
\* only if p is the password most recently stored for the user (by register
\* or by a successful reset_password); any other password, the one before the
\* reset included, is rejected and counted as a failed attempt.
C24_LatestPasswordOnly ==
    \A p \in Procs :
        OpenLogin(req[p]) =>
            LET r == req[p]
            IN IF r.pw = LatestPassword(r)
               THEN r.res = "tokens"
               ELSE /\ r.res = "unauth"
                    /\ r.checked
                    /\ users[r.uid].failed_login_attempts =
                           r.before[r.uid].failed_login_attempts + 1

\* C25: in every state that sequential executions of register, login,
\* refresh, verify_email and reset_password reach, every user has
\* 0 <= failed_login_attempts <= 5, and account_locked_until is set if and
\* only if failed_login_attempts = 5.
C25_CounterAndLock ==
    \A i \in Ids :
        /\ users[i].failed_login_attempts >= 0
        /\ users[i].failed_login_attempts <= MAX_FAILED_ATTEMPTS
        /\ (users[i].account_locked_until # None)
               <=> (users[i].failed_login_attempts = MAX_FAILED_ATTEMPTS)

\* C25 witness: a login has observed the elapsed lockout of a user that had
\* reached 5 failures and been locked, and counter and lock are cleared
C25_Witness ==
    \E p \in Procs :
        /\ FoundExpired(req[p])
        /\ req[p].before[req[p].uid].failed_login_attempts = MAX_FAILED_ATTEMPTS
        /\ users[req[p].uid].account_locked_until = None
        /\ users[req[p].uid].failed_login_attempts < MAX_FAILED_ATTEMPTS

\* C26 as claimed: in every reachable state a user with
\* failed_login_attempts = 0 has last_failed_login null.
C26_Claimed ==
    \A i \in Ids :
        users[i].failed_login_attempts = 0 => users[i].last_failed_login = None

\* the step resets the counter of user i
ResetsCounter(i) ==
    /\ users[i].failed_login_attempts > 0
    /\ users'[i].failed_login_attempts = 0

\* the step is the clearing of the elapsed lockout of user i by a login
ObservesExpiry(i) ==
    /\ users[i].account_locked_until # None
    /\ now >= users[i].account_locked_until
    /\ users'[i] = [users[i] EXCEPT !.failed_login_attempts = 0,
                                    !.account_locked_until = None]

\* C26: every step that resets failed_login_attempts to 0 also clears
\* last_failed_login, except the login that observes an elapsed lockout: it
\* resets the counter and the lock and leaves last_failed_login as it was.
C26_ResetsClearStamp ==
    [][\A i \in Ids :
          ResetsCounter(i) =>
              \/ users'[i].last_failed_login = None
              \/ ObservesExpiry(i) /\ users'[i].last_failed_login # None]_vars

\* C26 witness: a password reset has cleared counter and last_failed_login
\* of a user that had failed logins
C26_Witness ==
    \E p \in Procs :
        /\ Answered(req[p]) /\ req[p].op = "reset_password" /\ req[p].res = "True"
        /\ req[p].before[req[p].uid].failed_login_attempts > 0
        /\ req[p].before[req[p].uid].last_failed_login # None
        /\ users[req[p].uid].failed_login_attempts = 0
        /\ users[req[p].uid].last_failed_login = None

\* r is a login, an email verification or a password reset
Addressing(r) ==
    Answered(r) /\ r.op \in {"login", "verify_email", "reset_password"}

\* the email that r addresses: the one it was given, or the sub of its token
Addressed(r) == IF r.op = "login" THEN r.email ELSE r.tok.sub

\* C27: a login, an email verification and a password reset change at most
\* the row of the user they address (by email or by the sub of the token):
\* every column of every other row is as it was when the request arrived, and
\* no row is added or removed.
C27_OnlyAddressedUser ==
    \A p \in Procs :
        Addressing(req[p]) =>
            /\ Len(users) = Len(req[p].before)
            /\ \A i \in Ids :
                  users[i].email # Addressed(req[p]) => users[i] = req[p].before[i]

\* C27 witness: a fifth failed login has locked one user while the row of the
\* other user, which has failures of its own, is as it was
C27_Witness ==
    \E p \in Procs :
        /\ FailedCheck(req[p]) /\ req[p].op = "login"
        /\ users[req[p].uid].account_locked_until # None
        /\ \E i \in Ids :
              /\ i # req[p].uid
              /\ users[i].failed_login_attempts > 0
              /\ users[i].account_locked_until = None
              /\ users[i] = req[p].before[i]

\* r is a password reset with a token that an earlier reset has accepted, not
\* yet expired when r arrived, and a password the policy accepts
ResetAgain(r) ==
    /\ Answered(r) /\ r.op = "reset_password"
    /\ r.tok.type = "password_reset" /\ r.tok \in r.spent
    /\ ~(r.tok.exp < r.t0)
    /\ validate_password_strength(r.pw)[1]

\* C28: a password_reset token is not consumed by its use: a reset with a
\* token that an earlier reset accepted, before the token expires, returns
\* True again, stores the new password and clears the lockout state that
\* failed logins have built up since.
C28_ResetTokenNotConsumed ==
    \A p \in Procs :
        ResetAgain(req[p]) =>
            LET row == users[req[p].uid]
            IN /\ req[p].res = "True"
               /\ req[p].uid # 0
               /\ row.email = req[p].tok.sub
               /\ verify_password(req[p].pw, row.hashed_password)
               /\ row.failed_login_attempts = 0
               /\ row.last_failed_login = None
               /\ row.account_locked_until = None

\* C28 witness: the token is used a second time, with another password, on
\* an account that failed logins since the first use have locked
C28_Witness ==
    \E p \in Procs :
        /\ ResetAgain(req[p])
        /\ req[p].res = "True"
        /\ req[p].before[req[p].uid].account_locked_until # None
        /\ ~verify_password(req[p].pw, req[p].before[req[p].uid].hashed_password)
        /\ users[req[p].uid].account_locked_until = None

\* r is a request that presents a bearer token to get_current_user
Bearer(r) == Answered(r) /\ r.op = "current_user"

\* the token of r is a validly signed access token, not expired when r
\* arrived, whose sub is the id of a row
GoodAccessToken(r) ==
    /\ r.tok.sig = "valid"
    /\ r.tok.type = "access"
    /\ ~(r.tok.exp < r.t0)
    /\ IntOfStr(r.tok.sub) \in DOMAIN r.before

\* C29: get_current_user accepts a bearer token if and only if it is a
\* validly signed unexpired access token whose sub is the id of an existing
\* user, and returns that user; is_active and the lockout columns play no
\* part and nothing is written; refresh_access_token, in contrast, refuses
\* the token of a deactivated user.
C29_BearerIgnoresStatus ==
    \A p \in Procs :
        /\ Bearer(req[p]) =>
              /\ users = req[p].before
              /\ (req[p].res = "user") <=> GoodAccessToken(req[p])
              /\ req[p].res = "user" =>
                    /\ req[p].uid = IntOfStr(req[p].tok.sub)
                    /\ req[p].snap = users[req[p].uid]
              /\ req[p].res # "user" => req[p].res = "401"
        /\ (/\ Refreshing(req[p])
            /\ req[p].uid # 0
            /\ ~req[p].before[req[p].uid].is_active) => req[p].res = "None"

\* C29 witness: a deactivated user whose account is also locked presents an
\* unexpired access token and is accepted
C29_Witness ==
    \E p \in Procs :
        /\ Bearer(req[p])
        /\ req[p].res = "user"
        /\ ~users[req[p].uid].is_active
        /\ users[req[p].uid].account_locked_until # None
        /\ req[p].t0 < users[req[p].uid].account_locked_until

\* r is a registration whose register_user call created the user
RegisteredNew(r) ==
    Answered(r) /\ r.op = "register" /\ r.uid # 0

\* C30: whenever register_user has created the user, the register endpoint
\* answers 201 with an access and a refresh token whose sub is the id of that
\* user, whatever other requests (failed logins against the new address,
\* password resets) ran between the commit of the registration and the
\* endpoint's own authenticate_user call.
C30_RegisterReturnsTokens ==
    \A p \in Procs :
        RegisteredNew(req[p]) =>
            /\ req[p].res = "tokens"
            /\ Response(req[p]) = Created
            /\ {t.type : t \in req[p].out} = {"access", "refresh"}
            /\ \A t \in req[p].out :
                  /\ IntOfStr(t.sub) = req[p].uid
                  /\ t.sig = "valid"
            /\ users[req[p].uid].email = req[p].email

\* C30 witness: the registration is answered with tokens although failed
\* logins against the new address ran while it was served
C30_Witness ==
    \E p \in Procs :
        /\ RegisteredNew(req[p])
        /\ req[p].res = "tokens"
        /\ users[req[p].uid].failed_login_attempts > 0
        /\ users[req[p].uid].last_failed_login # None

====
